---- MODULE Spec2Model ----
(***************************************************************************)
(* Model of samples/publish_datasource.py: main() as a sequential state    *)
(* machine.  One run of the script is one behaviour; the command line is   *)
(* the initial state, the server's and the terminal's answers are chosen   *)
(* nondeterministically at the step that asks for them.                    *)
(*                                                                         *)
(* Optional Python values (a flag that may be None, a variable that may    *)
(* not be bound yet) are sequences of length at most one: None is << >>,   *)
(* a value v is << v >>.                                                   *)
(***************************************************************************)
EXTENDS Integers, Sequences, FiniteSets, TLC

VARIABLES
    argv,            \* the command line: each option as given, None when absent
    pc,              \* position of main()
    args,            \* the namespace parse_args returned (line 38)
    password,        \* line 44
    rootLevel,       \* level of the root logger (process-wide logging state)
    basicConfigCalls,\* how often logging.basicConfig ran
    tableau_auth,    \* line 51
    server,          \* line 52
    session,         \* "none", "in" (signed in), "out" (signed out)
    new_datasource,  \* lines 56 and 75
    new_conn_creds,  \* lines 59-62
    publish_mode,    \* line 65
    new_job,         \* line 70
    pending,         \* the exception propagating out of the with block, or None
    net,             \* requests sent to the server, in order
    stdout,          \* lines printed, each a sequence of words
    error,           \* what ended the run abnormally ("none" while there is none)
    exitStatus,      \* process exit status once the run has ended
    returned,        \* history: the ids of the items the publish calls returned
    steps            \* history: the steps of main() executed so far, in order

vars == << argv, pc, args, password, rootLevel, basicConfigCalls, tableau_auth,
           server, session, new_datasource, new_conn_creds, publish_mode,
           new_job, pending, net, stdout, error, exitStatus, returned,
           steps >>

\* ---------------------------------------------------------------- bounds
\* Number of distinct identifiers the server may hand out.
NumIds == 2
\* Number of distinct passwords the user may type at the prompt.
NumPasswords == 2

\* ---------------------------------------------------------- Python values
None == << >>
Some(v) == << v >>
Val(o) == o[1]

\* Python truthiness of an optional string: None and '' are falsy.
Truthy(o) == o # None /\ Val(o) # ""

Ids == { "luid" \o ToString(i) : i \in 1..NumIds }
Passwords == { "pw" \o ToString(i) : i \in 1..NumPasswords }

\* ------------------------------------------------------- the command line
\* add_argument choices for --logging-level.
LoggingChoices == { "debug", "info", "error" }

\* What a user may type: every option absent or present, the connection
\* options also present with an empty value, --logging-level also with a
\* value outside its choices.
ArgvSet ==
    [ server        : { None, Some("https://host") },
      site          : { None, Some("site1") },
      username      : { None, Some("alice") },
      filepath      : { None, Some("ds.tdsx") },
      logging_level : { None } \cup { Some(l) : l \in LoggingChoices \cup { "warning" } },
      as_job        : BOOLEAN,
      conn_username : { None, Some(""), Some("cu") },
      conn_password : { None, Some(""), Some("cp") },
      conn_embed    : BOOLEAN,
      conn_oauth    : BOOLEAN ]

\* parse_args accepts the command line: required options present, the
\* logging level one of its choices.
ParseOk(av) ==
    /\ av.server # None
    /\ av.username # None
    /\ av.filepath # None
    /\ av.logging_level # None => Val(av.logging_level) \in LoggingChoices

\* The namespace parse_args builds: required options unwrapped, the default
\* of --logging-level applied, store_true flags as booleans, the other
\* options None when absent.
Namespace(av) ==
    [ server        |-> Val(av.server),
      site          |-> av.site,
      username      |-> Val(av.username),
      filepath      |-> Val(av.filepath),
      logging_level |-> IF av.logging_level = None THEN "error" ELSE Val(av.logging_level),
      as_job        |-> av.as_job,
      conn_username |-> av.conn_username,
      conn_password |-> av.conn_password,
      conn_embed    |-> av.conn_embed,
      conn_oauth    |-> av.conn_oauth ]

\* The parsed namespace, once bound.
A == Val(args)

\* ------------------------------------------------------------ termination
\* The run ends: sys.exit(status) or an uncaught exception.
Exit(status, why) ==
    /\ pc' = "exited"
    /\ exitStatus' = Some(status)
    /\ error' = why

Init ==
    /\ argv \in ArgvSet
    /\ pc = "parse"
    /\ args = None
    /\ password = None
    /\ rootLevel = "WARNING"
    /\ basicConfigCalls = 0
    /\ tableau_auth = None
    /\ server = None
    /\ session = "none"
    /\ new_datasource = None
    /\ new_conn_creds = None
    /\ publish_mode = None
    /\ new_job = None
    /\ pending = None
    /\ net = << >>
    /\ stdout = << >>
    /\ error = "none"
    /\ exitStatus = None
    /\ returned = << >>
    /\ steps = << >>

\* ------------------------------------------------------------------ steps
\* Line 38: parse_args.  A command line it rejects ends the run with the
\* parser's usage error (status 2).
ParseArgs ==
    /\ pc = "parse"
    /\ steps' = Append(steps, "parse")
    /\ IF ParseOk(argv)
       THEN /\ args' = Some(Namespace(argv))
            /\ pc' = "validate"
            /\ UNCHANGED << exitStatus, error >>
       ELSE /\ Exit(2, "usage")
            /\ UNCHANGED args
    /\ UNCHANGED << argv, returned, password, rootLevel, basicConfigCalls, tableau_auth,
                    server, session, new_datasource, new_conn_creds,
                    publish_mode, new_job, pending, net, stdout >>

\* Line 41: the condition under which parser.error is called.
ConnMismatch(a) ==
    \/ (Truthy(a.conn_username) /\ ~Truthy(a.conn_password))
    \/ (~Truthy(a.conn_username) /\ Truthy(a.conn_password))

\* Lines 41-42: parser.error prints the usage message and exits with status 2.
ValidateConn ==
    /\ pc = "validate"
    /\ steps' = Append(steps, "validate")
    /\ IF ConnMismatch(A)
       THEN Exit(2, "usage")
       ELSE /\ pc' = "prompt"
            /\ UNCHANGED << exitStatus, error >>
    /\ UNCHANGED << argv, returned, args, password, rootLevel, basicConfigCalls,
                    tableau_auth, server, session, new_datasource,
                    new_conn_creds, publish_mode, new_job, pending, net, stdout >>

\* Line 44: getpass.getpass returns what the user typed.
Prompt ==
    /\ pc = "prompt"
    /\ \E pw \in Passwords : password' = Some(pw)
    /\ pc' = "logging"
    /\ steps' = Append(steps, "prompt")
    /\ UNCHANGED << argv, returned, args, rootLevel, basicConfigCalls, tableau_auth,
                    server, session, new_datasource, new_conn_creds,
                    publish_mode, new_job, pending, net, stdout, error,
                    exitStatus >>

\* Line 44: getpass.getpass raises (end of input, interrupt); nothing catches it.
PromptFail ==
    /\ pc = "prompt"
    /\ Exit(1, "prompt")
    /\ steps' = Append(steps, "prompt_failed")
    /\ UNCHANGED << argv, returned, args, password, rootLevel, basicConfigCalls,
                    tableau_auth, server, session, new_datasource,
                    new_conn_creds, publish_mode, new_job, pending, net, stdout >>

\* str.upper on the level names.
Upper(s) ==
    CASE s = "debug" -> "DEBUG"
      [] s = "info"  -> "INFO"
      [] s = "error" -> "ERROR"

\* Variant of LoggingLevel that ignores the option and always takes the
\* default level.
LoggingLevelDefaultOnly(a) == "ERROR"

\* Line 47: getattr(logging, args.logging_level.upper()); a level is named
\* by the attribute of the logging module that holds it.
LoggingLevel(a) == Upper(a.logging_level)

\* Line 48: logging.basicConfig(level=logging_level); the root logger has no
\* handler yet, so the call configures it.
ConfigLogging ==
    /\ pc = "logging"
    /\ rootLevel' = LoggingLevel(A)
    /\ basicConfigCalls' = basicConfigCalls + 1
    /\ pc' = "server"
    /\ steps' = Append(steps, "logging")
    /\ UNCHANGED << argv, returned, args, password, tableau_auth, server, session,
                    new_datasource, new_conn_creds, publish_mode, new_job,
                    pending, net, stdout, error, exitStatus >>

\* Variant of TableauAuth that signs in with the --conn-password value when
\* one was given instead of the prompted password.
TableauAuthFromFlag(a, pw) ==
    [ username |-> a.username,
      password |-> IF a.conn_password # None THEN Val(a.conn_password) ELSE pw,
      site     |-> a.site ]

\* Line 51: TSC.TableauAuth(args.username, password, site=args.site).
TableauAuth(a, pw) ==
    [ username |-> a.username, password |-> pw, site |-> a.site ]

\* A request sent to the server.
Request(op, arg) == [ op |-> op, arg |-> arg ]

\* Lines 51-52: the auth record, then TSC.Server(args.server,
\* use_server_version=True), which asks the server for its version.
CreateServer ==
    /\ pc = "server"
    /\ tableau_auth' = Some(TableauAuth(A, Val(password)))
    /\ server' = Some([ address |-> A.server ])
    /\ net' = Append(net, Request("server_info", None))
    /\ pc' = "sign_in"
    /\ steps' = Append(steps, "server")
    /\ UNCHANGED << argv, returned, args, password, rootLevel, basicConfigCalls, session,
                    new_datasource, new_conn_creds, publish_mode, new_job,
                    pending, stdout, error, exitStatus >>

\* Lines 51-52: the version request fails (server unreachable); uncaught.
CreateServerFail ==
    /\ pc = "server"
    /\ tableau_auth' = Some(TableauAuth(A, Val(password)))
    /\ net' = Append(net, Request("server_info", None))
    /\ Exit(1, "server")
    /\ steps' = Append(steps, "server_failed")
    /\ UNCHANGED << argv, returned, args, password, rootLevel, basicConfigCalls, server,
                    session, new_datasource, new_conn_creds, publish_mode,
                    new_job, pending, stdout >>

\* Line 53: server.auth.sign_in(tableau_auth) succeeds; the with block is entered.
SignIn ==
    /\ pc = "sign_in"
    /\ net' = Append(net, Request("sign_in", tableau_auth))
    /\ session' = "in"
    /\ pc' = "construct"
    /\ steps' = Append(steps, "sign_in")
    /\ UNCHANGED << argv, returned, args, password, rootLevel, basicConfigCalls,
                    tableau_auth, server, new_datasource, new_conn_creds,
                    publish_mode, new_job, pending, stdout, error, exitStatus >>

\* Line 53: sign_in raises; the with block is never entered, nothing catches it.
SignInFail ==
    /\ pc = "sign_in"
    /\ net' = Append(net, Request("sign_in", tableau_auth))
    /\ Exit(1, "sign_in")
    /\ steps' = Append(steps, "sign_in_failed")
    /\ UNCHANGED << argv, returned, args, password, rootLevel, basicConfigCalls,
                    tableau_auth, server, session, new_datasource,
                    new_conn_creds, publish_mode, new_job, pending, stdout >>

\* Line 56: TSC.DatasourceItem(project_id=""); the item has no id yet.
NewDatasourceItem == [ project_id |-> "", id |-> None ]

\* Variant of ConnCredsWanted that tests for None instead of truthiness.
ConnCredsWantedIsNotNone(a) == a.conn_username # None

\* Line 60: the condition under which a credentials item is created.
ConnCredsWanted(a) == Truthy(a.conn_username)

\* Lines 61-62: TSC.ConnectionCredentials(name, password, embed=, oauth=);
\* name and password are the namespace's values as they are.
ConnectionCredentials(a) ==
    [ name     |-> a.conn_username,
      password |-> a.conn_password,
      embed    |-> a.conn_embed,
      oauth    |-> a.conn_oauth ]

\* Variant of PublishMode that picks another member of the enumeration.
PublishModeCreateNew == "CreateNew"

\* Line 65: TSC.Server.PublishMode.Overwrite.
PublishMode == "Overwrite"

\* Lines 56-65: the three values the publish call is given.
Construct ==
    /\ pc = "construct"
    /\ new_datasource' = Some(NewDatasourceItem)
    /\ new_conn_creds' = IF ConnCredsWanted(A)
                         THEN Some(ConnectionCredentials(A))
                         ELSE None
    /\ publish_mode' = Some(PublishMode)
    /\ pc' = "publish"
    /\ steps' = Append(steps, "construct")
    /\ UNCHANGED << argv, returned, args, password, rootLevel, basicConfigCalls,
                    tableau_auth, server, session, new_job, pending, net,
                    stdout, error, exitStatus >>

\* Lines 70-71 and 75-76: the arguments of server.datasources.publish; as_job
\* is passed only in the asynchronous branch and defaults to False.
PublishCall(a) ==
    [ item                   |-> Val(new_datasource),
      file_path              |-> a.filepath,
      mode                   |-> Val(publish_mode),
      connection_credentials |-> new_conn_creds,
      as_job                 |-> a.as_job ]

\* Variant of Publish that, in the asynchronous branch, asks the server for
\* the job once more before going on.
PublishThenPoll ==
    /\ pc = "publish"
    /\ net' = IF A.as_job
              THEN net \o << Request("publish", Some(PublishCall(A))),
                             Request("job_status", None) >>
              ELSE Append(net, Request("publish", Some(PublishCall(A))))
    /\ \E id \in Ids :
         /\ returned' = Append(returned, id)
         /\ IF A.as_job
            THEN /\ new_job' = Some([ id |-> id ])
                 /\ UNCHANGED new_datasource
            ELSE /\ new_datasource' = Some([ project_id |-> "default", id |-> Some(id) ])
                 /\ UNCHANGED new_job
    /\ pc' = "print"
    /\ steps' = Append(steps, "publish")
    /\ UNCHANGED << argv, args, password, rootLevel, basicConfigCalls,
                    tableau_auth, server, session, new_conn_creds,
                    publish_mode, pending, stdout, error, exitStatus >>

\* Lines 68-71 and 73-76: publish returns; a job item in the asynchronous
\* branch, the published datasource item otherwise.
Publish ==
    /\ pc = "publish"
    /\ net' = Append(net, Request("publish", Some(PublishCall(A))))
    /\ \E id \in Ids :
         /\ returned' = Append(returned, id)
         /\ IF A.as_job
            THEN /\ new_job' = Some([ id |-> id ])
                 /\ UNCHANGED new_datasource
            ELSE /\ new_datasource' = Some([ project_id |-> "default", id |-> Some(id) ])
                 /\ UNCHANGED new_job
    /\ pc' = "print"
    /\ steps' = Append(steps, "publish")
    /\ UNCHANGED << argv, args, password, rootLevel, basicConfigCalls,
                    tableau_auth, server, session, new_conn_creds,
                    publish_mode, pending, stdout, error, exitStatus >>

\* Variant of PublishFail in which the exception is swallowed inside the
\* with block, so the run ends as if nothing had failed.
PublishFailSwallowed ==
    /\ pc = "publish"
    /\ net' = Append(net, Request("publish", Some(PublishCall(A))))
    /\ pc' = "exit_scope"
    /\ steps' = Append(steps, "publish_failed")
    /\ UNCHANGED << argv, returned, args, password, rootLevel, basicConfigCalls,
                    tableau_auth, server, session, new_datasource,
                    new_conn_creds, publish_mode, new_job, pending, stdout,
                    error, exitStatus >>

\* Lines 70 and 75: publish raises; the exception leaves the with block.
PublishFail ==
    /\ pc = "publish"
    /\ net' = Append(net, Request("publish", Some(PublishCall(A))))
    /\ pending' = Some("publish")
    /\ pc' = "exit_scope"
    /\ steps' = Append(steps, "publish_failed")
    /\ UNCHANGED << argv, returned, args, password, rootLevel, basicConfigCalls,
                    tableau_auth, server, session, new_datasource,
                    new_conn_creds, publish_mode, new_job, stdout, error,
                    exitStatus >>

\* Variant of PrintTemplate with the two format strings exchanged.
PrintTemplateSwapped(as_job) ==
    IF as_job
    THEN << "Datasource", "published.", "Datasource", "ID:", "{0}" >>
    ELSE << "Datasource", "published", "asynchronously.", "Job", "ID:", "{0}" >>

\* Lines 72 and 77: the format strings, word by word.
PrintTemplate(as_job) ==
    IF as_job
    THEN << "Datasource", "published", "asynchronously.", "Job", "ID:", "{0}" >>
    ELSE << "Datasource", "published.", "Datasource", "ID:", "{0}" >>

\* str.format with one positional argument.
Format(template, x) ==
    [ i \in 1..Len(template) |-> IF template[i] = "{0}" THEN x ELSE template[i] ]

\* Lines 72 and 77: the id printed is new_job.id, respectively the id of the
\* item publish returned.
PrintedId(as_job) ==
    IF as_job THEN Val(new_job).id ELSE Val(Val(new_datasource).id)

\* Lines 72 and 77: print the result line.
PrintResult ==
    /\ pc = "print"
    /\ stdout' = Append(stdout, Format(PrintTemplate(A.as_job), PrintedId(A.as_job)))
    /\ pc' = "exit_scope"
    /\ steps' = Append(steps, "print")
    /\ UNCHANGED << argv, returned, args, password, rootLevel, basicConfigCalls,
                    tableau_auth, server, session, new_datasource,
                    new_conn_creds, publish_mode, new_job, pending, net,
                    error, exitStatus >>

\* Variant of ExitScope that signs out only when the block completed
\* normally (a sign_out call at the end of the block instead of a with).
ExitScopeOnSuccessOnly ==
    /\ pc = "exit_scope"
    /\ IF pending = None
       THEN /\ net' = Append(net, Request("sign_out", None))
            /\ session' = "out"
            /\ steps' = Append(steps, "sign_out")
            /\ Exit(0, "none")
       ELSE /\ UNCHANGED << net, session, steps >>
            /\ Exit(1, Val(pending))
    /\ UNCHANGED << argv, returned, args, password, rootLevel, basicConfigCalls,
                    tableau_auth, server, new_datasource, new_conn_creds,
                    publish_mode, new_job, pending, stdout >>

\* Line 53, leaving the with block: the context manager signs out, on normal
\* completion and when an exception leaves the block; the exception then
\* ends the run.
ExitScope ==
    /\ pc = "exit_scope"
    /\ net' = Append(net, Request("sign_out", None))
    /\ session' = "out"
    /\ IF pending = None THEN Exit(0, "none") ELSE Exit(1, Val(pending))
    /\ steps' = Append(steps, "sign_out")
    /\ UNCHANGED << argv, returned, args, password, rootLevel, basicConfigCalls,
                    tableau_auth, server, new_datasource, new_conn_creds,
                    publish_mode, new_job, pending, stdout >>

Next ==
    \/ ParseArgs
    \/ ValidateConn
    \/ Prompt
    \/ PromptFail
    \/ ConfigLogging
    \/ CreateServer
    \/ CreateServerFail
    \/ SignIn
    \/ SignInFail
    \/ Construct
    \/ Publish
    \/ PublishFail
    \/ PrintResult
    \/ ExitScope

Spec == Init /\ [][Next]_vars

\* ------------------------------------------------------------- properties
\* Positions of net holding a request of kind op.
Requests(op) == { i \in DOMAIN net : net[i].op = op }

\* The step named st has been executed.
Did(st) == \E i \in DOMAIN steps : steps[i] = st

\* The words ws occur in line, next to each other and in order.
Contains(line, ws) ==
    \E k \in 0..(Len(line) - Len(ws)) :
        \A j \in 1..Len(ws) : line[k + j] = ws[j]

\* Exactly one of --conn-username / --conn-password is on the command line.
ExactlyOneConnOption ==
    (argv.conn_username # None) # (argv.conn_password # None)

\* C1: a command line with exactly one of --conn-username / --conn-password
\* (whatever its value) never gets past the validation: once the validation
\* has run the process has ended with the usage error, without a prompt and
\* without any request to the server.
C1_UsageErrorBeforeNetwork ==
    (ExactlyOneConnOption /\ pc \notin { "parse", "validate" })
        => /\ pc = "exited"
           /\ error = "usage"
           /\ exitStatus = Some(2)
           /\ password = None
           /\ net = << >>

\* C2: a session that was signed in is signed out exactly once before the
\* process ends, whichever way the with block is left; the sign-out never
\* happens twice, and never without a sign-in.
C2_SignedOutOnEveryExit ==
    /\ Cardinality(Requests("sign_out")) <= 1
    /\ Requests("sign_out") # {} => Did("sign_in")
    /\ session = "in" => pc \in { "construct", "publish", "print", "exit_scope" }
    /\ (pc = "exited" /\ Did("sign_in"))
          => /\ session = "out"
             /\ Cardinality(Requests("sign_out")) = 1

\* A run whose publish failed has ended, signed out.
C2_Witness ==
    /\ pc = "exited"
    /\ Did("publish_failed")
    /\ session = "out"
    /\ exitStatus = Some(1)

\* C3: when publish returned, the run prints exactly one line: with --as-job
\* "Datasource published asynchronously. Job ID: <id>", without it
\* "Datasource published. Datasource ID: <id>", <id> being the id of the
\* returned item; the asynchronous line has no "Datasource ID:", the
\* synchronous one no "Job ID:".  Nothing is printed otherwise.
C3_ResultLine ==
    /\ Len(stdout) <= 1
    /\ stdout # << >> => Did("publish")
    /\ (pc \in { "exit_scope", "exited" } /\ Did("publish"))
          => /\ Len(stdout) = 1
             /\ Len(returned) = 1
             /\ IF argv.as_job
                THEN /\ stdout[1] = << "Datasource", "published", "asynchronously.",
                                       "Job", "ID:", returned[1] >>
                     /\ Contains(stdout[1], << "Job", "ID:" >>)
                     /\ ~Contains(stdout[1], << "Datasource", "ID:" >>)
                ELSE /\ stdout[1] = << "Datasource", "published.",
                                       "Datasource", "ID:", returned[1] >>
                     /\ Contains(stdout[1], << "Datasource", "ID:" >>)
                     /\ ~Contains(stdout[1], << "Job", "ID:" >>)

\* An asynchronous run has printed its job id and ended.
C3_Witness ==
    /\ pc = "exited"
    /\ argv.as_job
    /\ Len(stdout) = 1
    /\ Contains(stdout[1], << "Job", "ID:" >>)
    /\ exitStatus = Some(0)

\* C4: every publish request carries an item with an empty project reference
\* and the mode Overwrite, whatever the flags.
C4_EmptyProjectOverwrite ==
    \A i \in Requests("publish") :
        /\ Val(net[i].arg).item.project_id = ""
        /\ Val(net[i].arg).mode = "Overwrite"

\* An asynchronous publish with embedded oauth credentials has been sent.
C4_Witness ==
    \E i \in Requests("publish") :
        /\ Val(net[i].arg).as_job
        /\ Val(net[i].arg).connection_credentials # None
        /\ argv.conn_embed
        /\ argv.conn_oauth

\* C5: when both --conn-username and --conn-password are on the command
\* line, every publish request carries a credentials record holding the
\* given name and password and the embed / oauth flags as given.
C5_CredsRecordPassed ==
    (argv.conn_username # None /\ argv.conn_password # None)
        => \A i \in Requests("publish") :
              Val(net[i].arg).connection_credentials
                  = Some([ name     |-> argv.conn_username,
                           password |-> argv.conn_password,
                           embed    |-> argv.conn_embed,
                           oauth    |-> argv.conn_oauth ])

\* C6: a failed sign-in, a failed argument validation and a failed publish
\* are not recovered: the run ends with a non-zero status and no result
\* line; after a failed validation nothing else runs, after a failed
\* sign-in nothing else runs (no publish), after a failed publish nothing
\* is printed and only the scope's sign-out follows.
C6_FailuresTerminate ==
    /\ (args # None /\ pc # "validate" /\ ConnMismatch(A))
          => /\ pc = "exited"
             /\ exitStatus = Some(2)
             /\ steps = << "parse", "validate" >>
             /\ stdout = << >>
             /\ net = << >>
    /\ Did("sign_in_failed")
          => /\ pc = "exited"
             /\ exitStatus = Some(1)
             /\ steps[Len(steps)] = "sign_in_failed"
             /\ stdout = << >>
             /\ Requests("publish") = {}
    /\ Did("publish_failed")
          => /\ pc \in { "exit_scope", "exited" }
             /\ pc = "exited" => exitStatus = Some(1)
             /\ stdout = << >>
             /\ ~Did("print")
             /\ \A i \in DOMAIN steps :
                   steps[i] = "publish_failed"
                       => SubSeq(steps, i + 1, Len(steps)) \in { << >>, << "sign_out" >> }
    /\ (pc = "exited" /\ exitStatus = Some(0)) => (error = "none" /\ Did("print"))

\* A run whose publish failed has ended with status 1 and empty output.
C6_Witness ==
    /\ pc = "exited"
    /\ Did("publish_failed")
    /\ error = "publish"
    /\ exitStatus = Some(1)
    /\ stdout = << >>

\* C7: sign-in is requested at most once and publish at most once, exactly
\* once in a finished run that had signed in; after a publish request the
\* only later request is the sign-out (no poll, no status request, no
\* second attempt).
C7_NoRetryNoPolling ==
    /\ Cardinality(Requests("sign_in")) <= 1
    /\ Cardinality(Requests("publish")) <= 1
    /\ (Did("sign_in") /\ pc \in { "print", "exit_scope", "exited" })
          => Cardinality(Requests("publish")) = 1
    /\ \A i \in Requests("publish") :
          \A j \in DOMAIN net : j > i => (j = i + 1 /\ net[j].op = "sign_out")

\* An asynchronous run has ended having sent publish and then sign-out.
C7_Witness ==
    /\ pc = "exited"
    /\ argv.as_job
    /\ new_job # None
    /\ \E i \in Requests("publish") : i + 1 \in Requests("sign_out")

\* C8: logging is configured once, before the sign-in request, to the level
\* --logging-level names (ERROR when the option is absent), and keeps that
\* level for the rest of the run; until then the root logger has its
\* initial level.
C8_LoggingLevel ==
    /\ basicConfigCalls <= 1
    /\ basicConfigCalls = 0 => rootLevel = "WARNING"
    /\ basicConfigCalls = 1
          => rootLevel = (CASE argv.logging_level = None            -> "ERROR"
                            [] argv.logging_level = Some("debug")   -> "DEBUG"
                            [] argv.logging_level = Some("info")    -> "INFO"
                            [] argv.logging_level = Some("error")   -> "ERROR")
    /\ Requests("sign_in") # {} => basicConfigCalls = 1

\* A run with --logging-level debug has signed in and ended.
C8_Witness ==
    /\ argv.logging_level = Some("debug")
    /\ rootLevel = "DEBUG"
    /\ Did("sign_in")
    /\ pc = "exited"

\* The steps of main() in program order.
StepOrder ==
    << "parse", "validate", "prompt", "logging", "server", "sign_in",
       "construct", "publish", "print", "sign_out" >>

\* C9: the steps run in program order: what has run is an initial part of
\* parse, validate, prompt, logging, server, sign-in, construct, publish,
\* print, sign-out, possibly ending in a step that failed (the sign-out
\* alone also follows a failed publish); the sign-in request carries the password read at the prompt;
\* a publish request follows a successful sign-in; a line is printed only
\* after publish returned.
C9_StepOrder ==
    /\ LET n == Len(steps) IN
          \/ steps = SubSeq(StepOrder, 1, n)
          \/ \E k \in { 3, 5, 6, 8 } :
                /\ n = k
                /\ SubSeq(steps, 1, k - 1) = SubSeq(StepOrder, 1, k - 1)
                /\ steps[k] = StepOrder[k] \o "_failed"
          \/ steps = SubSeq(StepOrder, 1, 7) \o << "publish_failed", "sign_out" >>
    /\ \A i \in Requests("sign_in") :
          /\ Did("prompt")
          /\ password # None
          /\ Val(net[i].arg).password = Val(password)
          /\ Val(net[i].arg).username = Val(argv.username)
    /\ \A i \in Requests("publish") :
          /\ Did("sign_in")
          /\ \E j \in Requests("sign_in") : j < i
    /\ stdout # << >> => (Did("publish") /\ returned # << >>)

\* A run given --conn-password has signed in with the prompted password and
\* run to its end through every step.
C9_Witness ==
    /\ steps = StepOrder
    /\ argv.conn_password = Some("cp")
    /\ \E i \in Requests("sign_in") : Val(net[i].arg).password = Val(password)

\* C10: a publish request carries no credentials exactly when no non-empty
\* --conn-username was given, and then the request and the printed line are
\* determined by the other options (and the server's answer) alone:
\* --conn-embed and --conn-oauth do not appear in them.
C10_FlagsIgnoredWithoutUsername ==
    /\ \A i \in Requests("publish") :
          /\ Val(net[i].arg).connection_credentials = None
                <=> ~Truthy(argv.conn_username)
          /\ ~Truthy(argv.conn_username)
                => Val(net[i].arg) =
                      [ item                   |-> [ project_id |-> "", id |-> None ],
                        file_path              |-> Val(argv.filepath),
                        mode                   |-> "Overwrite",
                        connection_credentials |-> None,
                        as_job                 |-> argv.as_job ]
    /\ (~Truthy(argv.conn_username) /\ stdout # << >>)
          => stdout = << IF argv.as_job
                         THEN << "Datasource", "published", "asynchronously.",
                                 "Job", "ID:", returned[1] >>
                         ELSE << "Datasource", "published.", "Datasource", "ID:",
                                 returned[1] >> >>

\* A run without a connection username but with --conn-embed and
\* --conn-oauth has published and printed.
C10_Witness ==
    /\ ~Truthy(argv.conn_username)
    /\ argv.conn_embed
    /\ argv.conn_oauth
    /\ Requests("publish") # {}
    /\ stdout # << >>
====
